---- MODULE Spec2Model ----
(***************************************************************************)
(* Model of market_engine_config.py: the settings dataclasses ModelConfig, *)
(* DataConfig, AnomalyConfig and the configuration manager                 *)
(* MarketEngineConfig (construction, secrets lookup, directory bootstrap). *)
(*                                                                         *)
(* Strings that the code parses (the config path) are sequences of         *)
(* characters; fractions are integers in hundredths (0.4 is 40); a         *)
(* reference to a heap object is its index in heap and None is 0.          *)
(* Paths follow POSIX rules (posixpath, Linux mkdir/stat).                 *)
(***************************************************************************)
EXTENDS Integers, Sequences, FiniteSets, TLC

\* ---------------------------------------------------------------- bounds
MaxPathLen == 4
NameMax == 1
MaxRecords == 2

\* ------------------------------------------------------- string helpers
sep == "/"
\* config paths are the strings over these characters; the components "."
\* and ".." do not occur, and a component longer than NameMax is refused
\* by the filesystem (ENAMETOOLONG)
PathChars == {"a", sep}
Paths == UNION {[1..n -> PathChars] : n \in 0..MaxPathLen}

MaxOf(S) == CHOOSE x \in S : \A y \in S : y <= x
MinOf(S) == CHOOSE x \in S : \A y \in S : x <= y

\* p.rfind(sep) + 1
RFindSep(p) ==
    LET S == {i \in 1..Len(p) : p[i] = sep}
    IN IF S = {} THEN 0 ELSE MaxOf(S)

\* s == sep * len(s)
AllSep(s) == \A i \in 1..Len(s) : s[i] = sep

\* s.rstrip(sep)
RStripSep(s) ==
    LET K == {i \in 1..Len(s) : s[i] # sep}
    IN IF K = {} THEN <<>> ELSE SubSeq(s, 1, MaxOf(K))

\* posixpath.split(p): <<head, tail>>
split(p) ==
    LET i == RFindSep(p)
        head == SubSeq(p, 1, i)
        tail == SubSeq(p, i + 1, Len(p))
    IN <<IF head # <<>> /\ ~AllSep(head) THEN RStripSep(head) ELSE head, tail>>

\* os.path.dirname(p)
dirname(p) ==
    LET i == RFindSep(p)
        head == SubSeq(p, 1, i)
    IN IF head # <<>> /\ ~AllSep(head) THEN RStripSep(head) ELSE head

\* ------------------------------------------------------------ filesystem
\* A node is [abs, comps]: the components of a path below the root
\* (abs = TRUE) or below the working directory (abs = FALSE).  A filesystem
\* is a function from its existing nodes to "dir", "rodir" (a directory the
\* process may not write) or "file".
RECURSIVE Components(_)
Components(p) ==
    IF p = <<>> THEN <<>>
    ELSE IF Head(p) = sep THEN Components(Tail(p))
    ELSE LET S == {i \in 1..Len(p) : p[i] = sep}
             n == IF S = {} THEN Len(p) + 1 ELSE MinOf(S)
         IN <<SubSeq(p, 1, n - 1)>> \o Components(SubSeq(p, n, Len(p)))

NodeOf(abs, cs, k) == [abs |-> abs, comps |-> SubSeq(cs, 1, k)]
RootNode == [abs |-> TRUE, comps |-> <<>>]
CwdNode == [abs |-> FALSE, comps |-> <<>>]

\* resolve components k..n of cs, the first k-1 being resolved
RECURSIVE Walk(_, _, _, _, _)
Walk(fs, abs, cs, k, n) ==
    IF k > n THEN "OK"
    ELSE IF fs[NodeOf(abs, cs, k - 1)] = "file" THEN "ENOTDIR"
    ELSE IF Len(cs[k]) > NameMax THEN "ENAMETOOLONG"
    ELSE IF NodeOf(abs, cs, k) \notin DOMAIN fs THEN "ENOENT"
    ELSE Walk(fs, abs, cs, k + 1, n)

\* os.stat(p): the kind of the node, or the errno
Stat(fs, p) ==
    IF p = <<>> THEN "ENOENT"
    ELSE LET abs == p[1] = sep
             cs == Components(p)
             w == Walk(fs, abs, cs, 1, Len(cs))
             kind == fs[NodeOf(abs, cs, Len(cs))]
         IN IF w # "OK" THEN w
            ELSE IF kind = "file" /\ p[Len(p)] = sep THEN "ENOTDIR"
            ELSE kind

\* os.path.exists(p), os.path.isdir(p)
exists(fs, p) == Stat(fs, p) \in {"dir", "rodir", "file"}
isdir(fs, p) == Stat(fs, p) \in {"dir", "rodir"}

\* os.mkdir(p): [err, fs]
mkdir(fs, p) ==
    IF p = <<>> THEN [err |-> "ENOENT", fs |-> fs]
    ELSE LET abs == p[1] = sep
             cs == Components(p)
             n == Len(cs)
             w == Walk(fs, abs, cs, 1, n - 1)
             parent == fs[NodeOf(abs, cs, n - 1)]
             node == NodeOf(abs, cs, n)
         IN IF n = 0 THEN [err |-> "EEXIST", fs |-> fs]
            ELSE IF w # "OK" THEN [err |-> w, fs |-> fs]
            ELSE IF parent = "file" THEN [err |-> "ENOTDIR", fs |-> fs]
            ELSE IF Len(cs[n]) > NameMax THEN [err |-> "ENAMETOOLONG", fs |-> fs]
            ELSE IF node \in DOMAIN fs THEN [err |-> "EEXIST", fs |-> fs]
            ELSE IF parent = "rodir" THEN [err |-> "EACCES", fs |-> fs]
            ELSE [err |-> "OK",
                  fs |-> [x \in DOMAIN fs \cup {node} |->
                             IF x = node THEN "dir" ELSE fs[x]]]

\* os.makedirs(name, exist_ok): [err, fs].  Parents are created first; a
\* failure leaves the parents already created in place.
RECURSIVE makedirs(_, _, _)
makedirs(fs, name, exist_ok) ==
    LET s1 == split(name)
        s == IF s1[2] = <<>> THEN split(s1[1]) ELSE s1
        head == s[1]
        tail == s[2]
        up == IF head # <<>> /\ tail # <<>> /\ ~exists(fs, head)
              THEN makedirs(fs, head, exist_ok)
              ELSE [err |-> "OK", fs |-> fs]
        m == mkdir(up.fs, name)
    IN IF up.err \notin {"OK", "EEXIST"} THEN up
       ELSE IF m.err = "OK" THEN m
       ELSE IF exist_ok /\ isdir(up.fs, name) THEN [err |-> "OK", fs |-> up.fs]
       ELSE [err |-> m.err, fs |-> up.fs]

\* ------------------------------------------------------------------ heap
\* heap is the sequence of allocated objects; an object is a record with
\* a type field.  A list is [type, items], a dict is [type, map].
None == 0
Refs(h) == 1..Len(h)
NewList(items) == [type |-> "list", items |-> items]
NewDict(map) == [type |-> "dict", map |-> map]
EmptyMap == [k \in {} |-> 0]

\* a keyword argument, or the default of the dataclass field
Arg(kw, f, default) == IF f \in DOMAIN kw THEN kw[f] ELSE default

\* obj.f = v
SetAttr(h, ref, f, v) == [h EXCEPT ![ref] = [@ EXCEPT ![f] = v]]

\* ----------------------------------------------------------- ModelConfig
DefaultEnsembleWeights ==
    [k \in {"lstm", "gradient_boosting", "statistical"} |->
        CASE k = "lstm" -> 40
          [] k = "gradient_boosting" -> 35
          [] k = "statistical" -> 25]

\* the generated __init__: every field from its argument or its default
ModelConfig_init(kw) ==
    [type |-> "ModelConfig",
     model_type |-> Arg(kw, "model_type", "ensemble"),
     training_window_days |-> Arg(kw, "training_window_days", 90),
     validation_split |-> Arg(kw, "validation_split", 20),
     retraining_threshold |-> Arg(kw, "retraining_threshold", 85),
     ensemble_weights |-> Arg(kw, "ensemble_weights", None)]

\* a variant that also replaces an empty mapping ("if not ...")
ModelConfig_post_init_falsy(h, self) ==
    IF h[self].ensemble_weights = None
       \/ h[h[self].ensemble_weights].map = EmptyMap
    THEN SetAttr(Append(h, NewDict(DefaultEnsembleWeights)),
                 self, "ensemble_weights", Len(h) + 1)
    ELSE h

ModelConfig_post_init(h, self) ==
    IF h[self].ensemble_weights = None
    THEN SetAttr(Append(h, NewDict(DefaultEnsembleWeights)),
                 self, "ensemble_weights", Len(h) + 1)
    ELSE h

\* ModelConfig(**kw): the new object is at Len(h) + 1
ModelConfig(h, kw) ==
    ModelConfig_post_init(Append(h, ModelConfig_init(kw)), Len(h) + 1)

\* ------------------------------------------------------------ DataConfig
DefaultSymbols == <<"BTC/USDT", "ETH/USDT", "SOL/USDT">>
DefaultTimeframes == <<"1h", "4h", "1d">>
DefaultFeatures ==
    <<"open", "high", "low", "close", "volume",
      "rsi_14", "macd", "bollinger_upper", "bollinger_lower",
      "volume_ma_20", "price_change_24h">>

DataConfig_init(kw) ==
    [type |-> "DataConfig",
     symbols |-> Arg(kw, "symbols", None),
     timeframes |-> Arg(kw, "timeframes", None),
     features |-> Arg(kw, "features", None),
     max_retries |-> Arg(kw, "max_retries", 3),
     retry_delay_seconds |-> Arg(kw, "retry_delay_seconds", 5),
     cache_ttl_minutes |-> Arg(kw, "cache_ttl_minutes", 15)]

\* a variant that also replaces an empty list
FillListFalsy(h, self, f, items) ==
    IF h[self][f] = None \/ h[h[self][f]].items = <<>>
    THEN SetAttr(Append(h, NewList(items)), self, f, Len(h) + 1)
    ELSE h

\* a variant that hands out one list object for all records
FillListShared(h, self, f, items) ==
    LET old == {r \in Refs(h) : h[r].type = "DataConfig" /\ r # self
                                 /\ h[r][f] # None}
    IN IF h[self][f] # None THEN h
       ELSE IF old # {} THEN SetAttr(h, self, f, h[MinOf(old)][f])
       ELSE SetAttr(Append(h, NewList(items)), self, f, Len(h) + 1)

\* if self.f is None: self.f = [a new list of the items]
FillList(h, self, f, items) ==
    IF h[self][f] = None
    THEN SetAttr(Append(h, NewList(items)), self, f, Len(h) + 1)
    ELSE h

DataConfig_post_init(h, self) ==
    FillList(
        FillList(
            FillList(h, self, "symbols", DefaultSymbols),
            self, "timeframes", DefaultTimeframes),
        self, "features", DefaultFeatures)

DataConfig(h, kw) ==
    DataConfig_post_init(Append(h, DataConfig_init(kw)), Len(h) + 1)

\* --------------------------------------------------------- AnomalyConfig
AnomalyConfig_init(kw) ==
    [type |-> "AnomalyConfig",
     z_score_threshold |-> Arg(kw, "z_score_threshold", 300),
     prediction_error_threshold |-> Arg(kw, "prediction_error_threshold", 15),
     consecutive_failures_before_reset |->
         Arg(kw, "consecutive_failures_before_reset", 5),
     health_check_interval_minutes |->
         Arg(kw, "health_check_interval_minutes", 30),
     auto_recovery_enabled |-> Arg(kw, "auto_recovery_enabled", TRUE)]

AnomalyConfig(h, kw) == Append(h, AnomalyConfig_init(kw))

\* ---------------------------------------------------- MarketEngineConfig
\* os.getenv(key, default): env is a function whose domain is the set of
\* variables that are set
getenv(env, key, default) == IF key \in DOMAIN env THEN env[key] ELSE default

\* a variant that takes the default for an empty value too
\* (os.getenv(key) or default)
FirebaseProjectId_falsy(env) ==
    IF getenv(env, "FIREBASE_PROJECT_ID", "") = ""
    THEN "market-prediction-engine"
    ELSE getenv(env, "FIREBASE_PROJECT_ID", "")

\* the "project_id" entry of the firebase_config literal
FirebaseProjectId(env) ==
    getenv(env, "FIREBASE_PROJECT_ID", "market-prediction-engine")

\* _load_firebase_config: the new dict is at Len(h) + 1.  The source text
\* ends inside the dict literal; the entries after "project_id" are unknown
\* and the dict is taken to be the value returned.
load_firebase_config(h, env) ==
    Append(h, NewDict([k \in {"project_id"} |-> FirebaseProjectId(env)]))

CreatedMsg(dir) == [msg |-> "Created config directory", dir |-> dir]
InitializedMsg == [msg |-> "Market Engine Configuration initialized"]

\* a variant that logs without calling os.makedirs
ensure_config_directory_nomakedirs(fs, config_path) ==
    LET config_dir == dirname(config_path)
    IN IF config_dir # <<>> /\ ~exists(fs, config_dir)
       THEN [err |-> "OK", fs |-> fs, log |-> <<CreatedMsg(config_dir)>>]
       ELSE [err |-> "OK", fs |-> fs, log |-> <<>>]

\* a variant that catches the OSError of os.makedirs
ensure_config_directory_swallow(fs, config_path) ==
    LET config_dir == dirname(config_path)
        m == makedirs(fs, config_dir, TRUE)
    IN IF config_dir # <<>> /\ ~exists(fs, config_dir)
       THEN IF m.err = "OK"
            THEN [err |-> "OK", fs |-> m.fs, log |-> <<CreatedMsg(config_dir)>>]
            ELSE [err |-> "OK", fs |-> m.fs, log |-> <<>>]
       ELSE [err |-> "OK", fs |-> fs, log |-> <<>>]

\* a variant that calls os.makedirs(config_dir) without testing existence
\* and without exist_ok
ensure_config_directory_noguard(fs, config_path) ==
    LET config_dir == dirname(config_path)
        m == makedirs(fs, config_dir, FALSE)
    IN IF config_dir # <<>>
       THEN IF m.err = "OK"
            THEN [err |-> "OK", fs |-> m.fs, log |-> <<CreatedMsg(config_dir)>>]
            ELSE [err |-> m.err, fs |-> m.fs, log |-> <<>>]
       ELSE [err |-> "OK", fs |-> fs, log |-> <<>>]

\* a variant that tests only that config_dir is non-empty
ensure_config_directory_always(fs, config_path) ==
    LET config_dir == dirname(config_path)
        m == makedirs(fs, config_dir, TRUE)
    IN IF config_dir # <<>>
       THEN IF m.err = "OK"
            THEN [err |-> "OK", fs |-> m.fs, log |-> <<CreatedMsg(config_dir)>>]
            ELSE [err |-> m.err, fs |-> m.fs, log |-> <<>>]
       ELSE [err |-> "OK", fs |-> fs, log |-> <<>>]

\* _ensure_config_directory: [err, fs, log]; err # "OK" is the OSError that
\* os.makedirs raises and nothing catches
ensure_config_directory(fs, config_path) ==
    LET config_dir == dirname(config_path)
        m == makedirs(fs, config_dir, TRUE)
    IN IF config_dir # <<>> /\ ~exists(fs, config_dir)
       THEN IF m.err = "OK"
            THEN [err |-> "OK", fs |-> m.fs, log |-> <<CreatedMsg(config_dir)>>]
            ELSE [err |-> m.err, fs |-> m.fs, log |-> <<>>]
       ELSE [err |-> "OK", fs |-> fs, log |-> <<>>]

\* a variant with the directory ensured before the secrets are resolved
PcAfter_dir_first(step) ==
    CASE step = "store_path" -> "data"
      [] step = "data" -> "model"
      [] step = "model" -> "anomaly"
      [] step = "anomaly" -> "ensure_dir"
      [] step = "ensure_dir" -> "secrets"
      [] step = "secrets" -> "log_init"
      [] step = "log_init" -> "done"

\* the statements of __init__ in program order: the position after a step
PcAfter(step) ==
    CASE step = "store_path" -> "data"
      [] step = "data" -> "model"
      [] step = "model" -> "anomaly"
      [] step = "anomaly" -> "secrets"
      [] step = "secrets" -> "ensure_dir"
      [] step = "ensure_dir" -> "log_init"
      [] step = "log_init" -> "done"

\* a variant that assigns the ModelConfig to data_config
StepAttr_copy_paste(step) ==
    CASE step = "data" -> "data_config"
      [] step = "model" -> "data_config"
      [] step = "anomaly" -> "anomaly_config"
      [] step = "secrets" -> "firebase_config"

\* the attribute of self that a step of __init__ assigns
StepAttr(step) ==
    CASE step = "data" -> "data_config"
      [] step = "model" -> "model_config"
      [] step = "anomaly" -> "anomaly_config"
      [] step = "secrets" -> "firebase_config"

ManagerAttrs == {"data_config", "model_config", "anomaly_config", "firebase_config"}

NewManager(config_path) ==
    [type |-> "MarketEngineConfig", config_path |-> config_path,
     data_config |-> None, model_config |-> None, anomaly_config |-> None,
     firebase_config |-> None]

\* ----------------------------------------------------------------- state
VARIABLES
    fs,       \* the filesystem
    fs0,      \* the filesystem when the current construction began
    env,      \* os.environ
    heap,     \* the allocated objects
    mgr,      \* the manager under construction or last constructed, or None
    pc,       \* position in __init__: "idle", a step, "done" or "raised"
    log,      \* entries logged by the current construction
    trace,    \* steps completed by the current construction
    again,    \* this construction repeats the path of the one just completed
    omitted,  \* <<record, field>>: the field was None when __post_init__ ran
    touched,  \* <<record, field>>: the collection was changed through it
    last      \* the last operation

vars == <<fs, fs0, env, heap, mgr, pc, log, trace, again, omitted, touched, last>>

ListFields == {"symbols", "timeframes", "features"}
SettingsTypes == {"DataConfig", "ModelConfig", "AnomalyConfig"}
CollectionFields(type) ==
    CASE type = "DataConfig" -> ListFields
      [] type = "ModelConfig" -> {"ensemble_weights"}
      [] OTHER -> {}

\* the fields of the new record at ref that are None before __post_init__
OmittedBy(ref, type, kw) ==
    {<<ref, f>> : f \in {g \in CollectionFields(type) : Arg(kw, g, None) = None}}

Quiet == pc \in {"idle", "done", "raised"}

\* ---------------------------------------------------------- filesystems
NodeA == [abs |-> FALSE, comps |-> << <<"a">> >>]
NodeAA == [abs |-> FALSE, comps |-> << <<"a">>, <<"a">> >>]
NodeRootA == [abs |-> TRUE, comps |-> << <<"a">> >>]

MkFs(a, aa, ra) ==
    LET D == {RootNode, CwdNode}
             \cup (IF a # "none" THEN {NodeA} ELSE {})
             \cup (IF aa # "none" THEN {NodeAA} ELSE {})
             \cup (IF ra # "none" THEN {NodeRootA} ELSE {})
    IN [n \in D |->
           CASE n = RootNode -> "rodir"
             [] n = CwdNode -> "dir"
             [] n = NodeA -> a
             [] n = NodeAA -> aa
             [] n = NodeRootA -> ra]

InitialFilesystems ==
    {MkFs(a, aa, ra) :
        a \in {"none", "dir", "rodir", "file"},
        aa \in {"none", "dir"}, ra \in {"none", "dir"}}
    \ {MkFs(a, "dir", ra) : a \in {"none", "file"}, ra \in {"none", "dir"}}

EmptyEnv == [k \in {} |-> ""]
Environments ==
    {EmptyEnv} \cup {[k \in {"FIREBASE_PROJECT_ID"} |-> v] : v \in {"", "my-proj"}}

\* --------------------------------------------- construction of a manager
Init ==
    /\ fs \in InitialFilesystems
    /\ fs0 = fs
    /\ env \in Environments
    /\ heap = <<>>
    /\ mgr = None
    /\ pc = "idle"
    /\ log = <<>>
    /\ trace = <<>>
    /\ again = FALSE
    /\ omitted = {}
    /\ touched = {}
    /\ last = [op |-> "none"]

\* MarketEngineConfig(config_path) is called; self.config_path = config_path.
\* The manager constructed before is released.
Begin(config_path) ==
    /\ Quiet
    /\ heap' = <<NewManager(config_path)>>
    /\ mgr' = 1
    /\ pc' = PcAfter("store_path")
    /\ log' = <<>>
    /\ trace' = <<"store_path">>
    /\ again' = (pc = "done" /\ heap[mgr].config_path = config_path)
    /\ omitted' = {}
    /\ touched' = {}
    /\ last' = [op |-> "MarketEngineConfig", config_path |-> config_path]
    /\ fs0' = fs
    /\ UNCHANGED <<fs, env>>

\* self.data_config = DataConfig()
StepData ==
    /\ pc = "data"
    /\ heap' = SetAttr(DataConfig(heap, EmptyMap), mgr, StepAttr("data"), Len(heap) + 1)
    /\ omitted' = omitted \cup OmittedBy(Len(heap) + 1, "DataConfig", EmptyMap)
    /\ pc' = PcAfter("data")
    /\ trace' = Append(trace, "data")
    /\ last' = [op |-> "DataConfig", kw |-> EmptyMap, ref |-> Len(heap) + 1]
    /\ UNCHANGED <<fs, fs0, env, mgr, log, again, touched>>

\* self.model_config = ModelConfig()
StepModel ==
    /\ pc = "model"
    /\ heap' = SetAttr(ModelConfig(heap, EmptyMap), mgr, StepAttr("model"), Len(heap) + 1)
    /\ omitted' = omitted \cup OmittedBy(Len(heap) + 1, "ModelConfig", EmptyMap)
    /\ pc' = PcAfter("model")
    /\ trace' = Append(trace, "model")
    /\ last' = [op |-> "ModelConfig", kw |-> EmptyMap, ref |-> Len(heap) + 1]
    /\ UNCHANGED <<fs, fs0, env, mgr, log, again, touched>>

\* self.anomaly_config = AnomalyConfig()
StepAnomaly ==
    /\ pc = "anomaly"
    /\ heap' = SetAttr(AnomalyConfig(heap, EmptyMap), mgr, StepAttr("anomaly"), Len(heap) + 1)
    /\ pc' = PcAfter("anomaly")
    /\ trace' = Append(trace, "anomaly")
    /\ last' = [op |-> "AnomalyConfig", kw |-> EmptyMap, ref |-> Len(heap) + 1]
    /\ UNCHANGED <<fs, fs0, env, mgr, log, again, omitted, touched>>

\* self.firebase_config = self._load_firebase_config()
StepSecrets ==
    /\ pc = "secrets"
    /\ heap' = SetAttr(load_firebase_config(heap, env), mgr, StepAttr("secrets"), Len(heap) + 1)
    /\ pc' = PcAfter("secrets")
    /\ trace' = Append(trace, "secrets")
    /\ last' = [op |-> "_load_firebase_config", ref |-> Len(heap) + 1]
    /\ UNCHANGED <<fs, fs0, env, mgr, log, again, omitted, touched>>

\* self._ensure_config_directory(): returns, or raises out of __init__
StepEnsureDir ==
    /\ pc = "ensure_dir"
    /\ LET r == ensure_config_directory(fs, heap[mgr].config_path)
       IN /\ fs' = r.fs
          /\ log' = log \o r.log
          /\ pc' = IF r.err = "OK" THEN PcAfter("ensure_dir") ELSE "raised"
          /\ trace' = IF r.err = "OK" THEN Append(trace, "ensure_dir") ELSE trace
          /\ last' = [op |-> "_ensure_config_directory", err |-> r.err]
    /\ UNCHANGED <<fs0, env, heap, mgr, again, omitted, touched>>

\* logger.info("Market Engine Configuration initialized"); __init__ returns
StepLogInit ==
    /\ pc = "log_init"
    /\ log' = Append(log, InitializedMsg)
    /\ pc' = PcAfter("log_init")
    /\ trace' = Append(trace, "log_init")
    /\ last' = [op |-> "logger.info"]
    /\ UNCHANGED <<fs, fs0, env, heap, mgr, again, omitted, touched>>

\* ------------------------------------------------- operations of a holder
\* the value a holder assigns to a field
HolderValue(f) ==
    CASE f = "max_retries" -> 0
      [] f = "model_config" -> None

HolderFields(type) ==
    CASE type = "DataConfig" -> {"max_retries"}
      [] type = "MarketEngineConfig" -> {"model_config"}
      [] OTHER -> {}

\* obj.f = value, for an object of a class of the module: the dataclasses
\* are not frozen and MarketEngineConfig is a plain class
HolderSetField(ref, f) ==
    /\ Quiet
    /\ ref \in Refs(heap)
    /\ f \in HolderFields(heap[ref].type)
    /\ heap[ref][f] # HolderValue(f)
    /\ heap' = SetAttr(heap, ref, f, HolderValue(f))
    /\ last' = [op |-> "setattr", ref |-> ref, field |-> f]
    /\ UNCHANGED <<fs, fs0, env, mgr, pc, log, trace, again, omitted, touched>>

\* one construction after another
Next ==
    \/ \E p \in Paths : Begin(p)
    \/ StepData
    \/ StepModel
    \/ StepAnomaly
    \/ StepSecrets
    \/ StepEnsureDir
    \/ StepLogInit

Spec == Init /\ [][Next]_vars

\* constructions, and a holder that assigns fields between them; the
\* filesystem starts with an empty working directory
InitHolder ==
    /\ Init
    /\ fs = MkFs("none", "none", "none")

NextHolder ==
    \/ Next
    \/ \E ref \in Refs(heap) : \E f \in HolderFields(heap[ref].type) : HolderSetField(ref, f)

SpecHolder == InitHolder /\ [][NextHolder]_vars

\* ------------------------------------------- records built by a caller
CallerLists == {<<>>, <<"X">>}
CallerDicts ==
    {EmptyMap,
     [k \in {"lstm", "other"} |-> IF k = "lstm" THEN 70 ELSE 50]}

\* keyword arguments: each field of fields omitted or one of values
Kwargs(fields, values) == UNION {[D -> values] : D \in SUBSET fields}

\* the caller evaluates the arguments: every value given becomes a new
\* object, in the order of order; the result is [heap, kw] with the
\* references as the arguments
RECURSIVE EvalArgs(_, _, _, _)
EvalArgs(h, vals, order, type) ==
    IF order = <<>> THEN [heap |-> h, kw |-> EmptyMap]
    ELSE LET f == Head(order)
         IN IF f \in DOMAIN vals
            THEN LET obj == IF type = "list" THEN NewList(vals[f])
                                         ELSE NewDict(vals[f])
                     r == EvalArgs(Append(h, obj), vals, Tail(order), type)
                 IN [heap |-> r.heap,
                     kw |-> [g \in DOMAIN r.kw \cup {f} |->
                                IF g = f THEN Len(h) + 1 ELSE r.kw[g]]]
            ELSE EvalArgs(h, vals, Tail(order), type)

\* the settings records allocated
NumRecords(h) == Cardinality({r \in Refs(h) : h[r].type \in SettingsTypes})

InitRecords ==
    /\ fs = MkFs("none", "none", "none")
    /\ fs0 = fs
    /\ env = EmptyEnv
    /\ heap = <<>>
    /\ mgr = None
    /\ pc = "idle"
    /\ log = <<>>
    /\ trace = <<>>
    /\ again = FALSE
    /\ omitted = {}
    /\ touched = {}
    /\ last = [op |-> "none"]

\* DataConfig(symbols=[...], ...): vals gives the lists that are supplied
NewDataConfig(vals) ==
    LET a == EvalArgs(heap, vals, <<"symbols", "timeframes", "features">>, "list")
    IN /\ NumRecords(heap) < MaxRecords
       /\ heap' = DataConfig(a.heap, a.kw)
       /\ omitted' = omitted \cup OmittedBy(Len(a.heap) + 1, "DataConfig", a.kw)
       /\ last' = [op |-> "DataConfig", vals |-> vals, kw |-> a.kw,
                   ref |-> Len(a.heap) + 1]
       /\ UNCHANGED <<fs, fs0, env, mgr, pc, log, trace, again, touched>>

\* ModelConfig(ensemble_weights={...}), or ModelConfig()
NewModelConfig(vals) ==
    LET a == EvalArgs(heap, vals, <<"ensemble_weights">>, "dict")
    IN /\ NumRecords(heap) < MaxRecords
       /\ heap' = ModelConfig(a.heap, a.kw)
       /\ omitted' = omitted \cup OmittedBy(Len(a.heap) + 1, "ModelConfig", a.kw)
       /\ last' = [op |-> "ModelConfig", vals |-> vals, kw |-> a.kw,
                   ref |-> Len(a.heap) + 1]
       /\ UNCHANGED <<fs, fs0, env, mgr, pc, log, trace, again, touched>>

\* rec.f.clear(), for a list that __post_init__ supplied
ListClear(ref, f) ==
    /\ heap[ref].type = "DataConfig" /\ f \in ListFields
    /\ <<ref, f>> \in omitted
    /\ heap[heap[ref][f]].items # <<>>
    /\ heap' = [heap EXCEPT ![heap[ref][f]].items = <<>>]
    /\ touched' = touched \cup {<<ref, f>>}
    /\ last' = [op |-> "inplace"]
    /\ UNCHANGED <<fs, fs0, env, mgr, pc, log, trace, again, omitted>>

\* rec.ensemble_weights["lstm"] = 0, for a dict that __post_init__ supplied
DictSetItem(ref) ==
    /\ heap[ref].type = "ModelConfig"
    /\ <<ref, "ensemble_weights">> \in omitted
    /\ LET d == heap[ref].ensemble_weights
           m == heap[d].map
       IN /\ ~("lstm" \in DOMAIN m /\ m["lstm"] = 0)
          /\ heap' = [heap EXCEPT ![d].map =
                         [k \in DOMAIN m \cup {"lstm"} |->
                             IF k = "lstm" THEN 0 ELSE m[k]]]
    /\ touched' = touched \cup {<<ref, "ensemble_weights">>}
    /\ last' = [op |-> "inplace"]
    /\ UNCHANGED <<fs, fs0, env, mgr, pc, log, trace, again, omitted>>

NextRecords ==
    \/ \E vals \in Kwargs(ListFields, CallerLists) : NewDataConfig(vals)
    \/ \E vals \in Kwargs({"ensemble_weights"}, CallerDicts) : NewModelConfig(vals)
    \/ \E ref \in Refs(heap) : \E f \in ListFields : ListClear(ref, f)
    \/ \E ref \in Refs(heap) : DictSetItem(ref)

SpecRecords == InitRecords /\ [][NextRecords]_vars

\* ================================================================ claims
ConfigPath == heap[mgr].config_path
ConfigDir == dirname(ConfigPath)
Logged(msg) == \E i \in 1..Len(log) : log[i].msg = msg
Constructing == pc \notin {"idle", "done", "raised"}

\* every directory on the way to path p, and p itself, is a directory of f
DirsExist(f, p) ==
    LET cs == Components(p)
        abs == p[1] = sep
    IN /\ isdir(f, p)
       /\ \A k \in 0..Len(cs) :
             /\ NodeOf(abs, cs, k) \in DOMAIN f
             /\ f[NodeOf(abs, cs, k)] \in {"dir", "rodir"}

\* os.makedirs is called for the directory of p and raises
DirCreationFails(f, p) ==
    /\ dirname(p) # <<>>
    /\ ~exists(f, dirname(p))
    /\ makedirs(f, dirname(p), TRUE).err # "OK"

\* C1: when the directory component of the config path is non-empty and
\* did not exist when construction began, then once construction has
\* returned normally that directory and all its parents exist.
C1_DirectoryExistsAfterConstruction ==
    (pc = "done" /\ ConfigDir # <<>> /\ ~exists(fs0, ConfigDir))
        => DirsExist(fs, ConfigDir)

\* a construction that returned after creating a directory and its parent
C1_Witness ==
    /\ pc = "done"
    /\ ConfigDir # <<>>
    /\ Len(Components(ConfigDir)) = 2
    /\ ~exists(fs0, split(ConfigDir)[1])
    /\ DirsExist(fs, ConfigDir)

\* C2: when os.makedirs fails, __init__ ends in the error: the step leads
\* to "raised" without a log entry, a raised construction never goes on to
\* return, and the 'initialized' entry is not in its log.
C2_DirectoryErrorPropagates ==
    /\ [][(pc = "ensure_dir" /\ DirCreationFails(fs, ConfigPath))
            => (pc' = "raised" /\ log' = log)]_vars
    /\ [][pc = "raised" => (pc' = "raised" \/ trace' = <<"store_path">>)]_vars
    /\ [](pc = "raised" => ~Logged(InitializedMsg.msg))

\* a construction that ended in a permission error
C2_Witness ==
    /\ pc = "raised"
    /\ last.op = "_ensure_config_directory"
    /\ last.err = "EACCES"
    /\ DirCreationFails(fs, ConfigPath)

\* C3: a construction that repeats the path of the construction completed
\* just before it does not raise and leaves the filesystem as the first
\* construction left it.
C3_SecondConstructionIdempotent ==
    again => (pc # "raised" /\ fs = fs0)

\* the second construction has returned; the directory is there
C3_Witness ==
    /\ again
    /\ pc = "done"
    /\ ConfigDir # <<>>
    /\ isdir(fs, ConfigDir)

\* C4: the steps of __init__ run in the order store path, DataConfig,
\* ModelConfig, AnomalyConfig, secrets, ensure directory, 'initialized'
\* log entry; the directory is ensured only with the secrets resolved, and
\* the 'initialized' entry is the last event, after every other step.
InitOrder ==
    <<"store_path", "data", "model", "anomaly", "secrets", "ensure_dir", "log_init">>

Assigned(attrs) == \A a \in attrs : heap[mgr][a] # None

C4_ConstructionOrder ==
    /\ Len(trace) <= Len(InitOrder)
    /\ trace = SubSeq(InitOrder, 1, Len(trace))
    /\ pc = "done" => trace = InitOrder
    /\ Constructing =>
          /\ Len(trace) >= 2 => Assigned({"data_config"})
          /\ Len(trace) >= 3 => Assigned({"data_config", "model_config"})
          /\ Len(trace) >= 4 =>
                Assigned({"data_config", "model_config", "anomaly_config"})
          /\ (Len(trace) >= 6 \/ fs # fs0 \/ Logged(CreatedMsg(<<>>).msg))
                => Assigned(ManagerAttrs)
    /\ (pc = "raised" \/ fs # fs0 \/ Logged(CreatedMsg(<<>>).msg))
          => Len(trace) >= 5
    /\ Logged(InitializedMsg.msg) =>
          /\ trace = InitOrder
          /\ log[Len(log)] = InitializedMsg
          /\ \A i \in 1..(Len(log) - 1) : log[i].msg # InitializedMsg.msg

\* the directory has been created and __init__ is about to log
C4_Witness ==
    /\ pc = "log_init"
    /\ fs # fs0
    /\ Logged(CreatedMsg(<<>>).msg)
    /\ Assigned(ManagerAttrs)

\* C5: the project identifier of the secrets record is the value of
\* FIREBASE_PROJECT_ID when it is set and "market-prediction-engine" when
\* it is not; resolving the secrets always completes and goes on to the
\* directory step, and only a failed directory creation ends a
\* construction in an error, whatever the environment.
ProjectIdOfManager == heap[heap[mgr].firebase_config].map["project_id"]

C5_ProjectIdFromEnvironment ==
    /\ []((mgr # None /\ heap[mgr].firebase_config # None) =>
             IF "FIREBASE_PROJECT_ID" \in DOMAIN env
             THEN ProjectIdOfManager = env["FIREBASE_PROJECT_ID"]
             ELSE ProjectIdOfManager = "market-prediction-engine")
    /\ [][pc = "secrets" =>
             (pc' = "ensure_dir" /\ heap'[mgr].firebase_config # None)]_vars
    /\ [](pc = "raised" =>
             (heap[mgr].firebase_config # None
              /\ DirCreationFails(fs0, ConfigPath)))

\* a construction completed with the variable unset
C5_Witness ==
    /\ pc = "done"
    /\ "FIREBASE_PROJECT_ID" \notin DOMAIN env
    /\ heap[mgr].firebase_config # None
    /\ ProjectIdOfManager = "market-prediction-engine"

\* the items of the list, or the map of the dict, that field f of rec holds
Items(rec, f) == heap[heap[rec][f]].items
Map(rec, f) == heap[heap[rec][f]].map

DefaultList(f) ==
    CASE f = "symbols" -> DefaultSymbols
      [] f = "timeframes" -> DefaultTimeframes
      [] f = "features" -> DefaultFeatures

\* C6: right after DataConfig(...) returns, each of symbols, timeframes and
\* features, independently of the others, holds the default sequence in a
\* list made by this call if the field was not supplied, and holds the very
\* list supplied, with its items unchanged, if it was (an empty list
\* included); one list is made per field not supplied; the defaults have
\* 3, 3 and 11 items.
C6_DataConfigDefaults ==
    last.op = "DataConfig" =>
        /\ heap[last.ref].type = "DataConfig"
        /\ \A f \in ListFields :
              IF f \in DOMAIN last.vals
              THEN /\ heap[last.ref][f] = last.kw[f]
                   /\ Items(last.ref, f) = last.vals[f]
              ELSE /\ heap[last.ref][f] > last.ref
                   /\ Items(last.ref, f) = DefaultList(f)
        /\ Len(heap) = last.ref + Cardinality(ListFields \ DOMAIN last.vals)
        /\ Len(DefaultSymbols) = 3
        /\ Len(DefaultTimeframes) = 3
        /\ Len(DefaultFeatures) = 11

\* DataConfig(symbols=[]) has returned: an empty list kept, two defaults
C6_Witness ==
    /\ last.op = "DataConfig"
    /\ DOMAIN last.vals = {"symbols"}
    /\ last.vals["symbols"] = <<>>
    /\ Items(last.ref, "symbols") = <<>>
    /\ Items(last.ref, "timeframes") = DefaultTimeframes
    /\ Items(last.ref, "features") = DefaultFeatures

\* C7: right after ModelConfig(...) returns, ensemble_weights is the mapping
\* lstm 40, gradient_boosting 35, statistical 25 (hundredths, summing to
\* 100) if none was supplied, and is the very mapping supplied, unchanged,
\* if one was, whatever its keys and the sum of its values.
C7_ModelConfigWeights ==
    last.op = "ModelConfig" =>
        /\ heap[last.ref].type = "ModelConfig"
        /\ IF "ensemble_weights" \in DOMAIN last.vals
           THEN /\ heap[last.ref].ensemble_weights = last.kw["ensemble_weights"]
                /\ Map(last.ref, "ensemble_weights") = last.vals["ensemble_weights"]
           ELSE LET m == Map(last.ref, "ensemble_weights")
                IN /\ heap[last.ref].ensemble_weights > last.ref
                   /\ DOMAIN m = {"lstm", "gradient_boosting", "statistical"}
                   /\ m["lstm"] = 40
                   /\ m["gradient_boosting"] = 35
                   /\ m["statistical"] = 25
                   /\ m["lstm"] + m["gradient_boosting"] + m["statistical"] = 100

\* ModelConfig(ensemble_weights={}) has returned with the empty mapping
C7_Witness ==
    /\ last.op = "ModelConfig"
    /\ "ensemble_weights" \in DOMAIN last.vals
    /\ last.vals["ensemble_weights"] = EmptyMap
    /\ Map(last.ref, "ensemble_weights") = EmptyMap

\* C8 as stated: no step changes a field of a constructed settings record,
\* and no step replaces a sub-record of a constructed manager.
SettingsRefs == {r \in Refs(heap) : heap[r].type \in SettingsTypes}

RecordsKept ==
    /\ \A r \in SettingsRefs : r \in Refs(heap') /\ heap'[r] = heap[r]
    /\ \A a \in ManagerAttrs : heap[mgr][a] # None => heap'[mgr][a] = heap[mgr][a]

C8_RecordsImmutable ==
    [][(mgr # None /\ mgr' = mgr /\ trace' # <<"store_path">>) => RecordsKept]_vars

\* C8 amended: the steps of __init__ never change a field of a settings
\* record constructed before, and never reassign a sub-record attribute
\* of the manager that is already assigned; only an assignment by a holder
\* (the dataclasses are not frozen) changes them.
C8_ConstructionKeepsRecords ==
    [][Constructing => RecordsKept]_vars

\* all four sub-records are assigned and the construction goes on
C8_Witness ==
    /\ pc = "log_init"
    /\ Assigned(ManagerAttrs)
    /\ heap[heap[mgr].data_config].max_retries = 3
    /\ Items(heap[mgr].data_config, "symbols") = DefaultSymbols
    /\ Map(heap[mgr].model_config, "ensemble_weights") = DefaultEnsembleWeights
    /\ Cardinality(SettingsRefs) = 3

\* C9: the ensure-directory step changes the filesystem or logs only when
\* the directory of the path is non-empty and absent; when it creates the
\* directory it logs 'Created config directory' naming it; when the
\* directory exists or the path has no directory component the filesystem
\* and the log are left as they are and the construction goes on.
C9_EnsureDirFrame ==
    [][pc = "ensure_dir" =>
          /\ (fs' # fs \/ log' # log)
                => (ConfigDir # <<>> /\ ~exists(fs, ConfigDir))
          /\ log' # log
                => (log' = Append(log, CreatedMsg(ConfigDir))
                    /\ DirsExist(fs', ConfigDir) /\ pc' = "log_init")
          /\ (ConfigDir = <<>> \/ exists(fs, ConfigDir))
                => (fs' = fs /\ log' = log /\ pc' = "log_init")]_vars

\* the step was taken for a bare file name and nothing was created
C9_Witness ==
    /\ pc = "log_init"
    /\ ConfigPath # <<>>
    /\ ConfigDir = <<>>
    /\ fs = fs0
    /\ log = <<>>

\* C10: a collection that a __post_init__ supplied holds its default as
\* long as it has not been changed through its own record: in-place
\* changes made through other records do not reach it, and no two records
\* hold the same default collection.
DefaultOf(f) ==
    IF f = "ensemble_weights" THEN NewDict(DefaultEnsembleWeights)
    ELSE NewList(DefaultList(f))

C10_DefaultsNotShared ==
    /\ \A x \in omitted \ touched : heap[heap[x[1]][x[2]]] = DefaultOf(x[2])
    /\ \A x, y \in omitted : x # y => heap[x[1]][x[2]] # heap[y[1]][y[2]]

\* two records built without symbols; the first one's list was cleared
\* before the second was built, and the second holds the default
C10_Witness ==
    \E x, y \in omitted :
        /\ x[2] = "symbols" /\ y[2] = "symbols"
        /\ x[1] < y[1]
        /\ x \in touched /\ y \notin touched
        /\ Items(x[1], "symbols") = <<>>
        /\ Items(y[1], "symbols") = DefaultSymbols
        /\ last.op = "DataConfig" /\ last.ref = y[1]

====
